---- MODULE Spec2Model ----
(***************************************************************************)
(* Backend of SIGED: the Express handlers of authController,               *)
(* aplicativosController and notasController over the five tables          *)
(*   usuarios, aplicativos_base, aplicativos_rel,                          *)
(*   plantillas_base, notas_despacho_rel.                                  *)
(*                                                                         *)
(* One action per HTTP request.  A handler is a pure operator from the     *)
(* tables and the request to the tables after it and the response; the     *)
(* action commits that result.  Requests do not overlap.                   *)
(*                                                                         *)
(* The tables are plain sets of rows: the handlers keep the base/relation  *)
(* bookkeeping by hand and no schema (foreign key, cascade, uniqueness) is *)
(* part of the sources.                                                    *)
(*                                                                         *)
(* Every statement awaited on the pool may throw.  A request carries `f`,  *)
(* the number of statements that succeed before one throws (SinFalla: none *)
(* throws); the handler's try/catch decides what the throw leaves behind.  *)
(***************************************************************************)
EXTENDS Integers, Sequences, FiniteSets, TLC

VARIABLES
    usuarios,            \* rows [id, nombre, email, contrasena]
    aplicativos_base,    \* rows [id, nombre, url, categoria]
    aplicativos_rel,     \* rows [id, usuario_id, aplicativo_base_id, creado_en]
    plantillas_base,     \* rows [id, novedad, nota_publica, nota_interna, nota_avances, plantilla]
    notas_despacho_rel,  \* rows [id, usuario_id, plantilla_id, creado_en]
    uuid,                \* per table, how many identifiers uuidv4() has produced for it
    JWT_SECRET,          \* process.env.KEY is set
    int8Parser,          \* how the pool hands a bigint (COUNT) to JavaScript
    tokens,              \* payloads of the tokens jwt.sign has issued
    res,                 \* the response to the last request
    localStorage,        \* the browser's storage: per key, the string stored under it
    montado,             \* the component mounted in the page, if any
    notas,               \* the state notas (novedades) as the last render saw it
    notasCargadas,       \* the state notasCargadas (cargado) as the last render saw it
    actualizaciones,     \* state updates queued by setNotas / setNotasCargadas, not rendered yet
    efectos              \* effects of the last commit that have not run yet

varsServidor == <<usuarios, aplicativos_base, aplicativos_rel, plantillas_base, notas_despacho_rel, uuid, JWT_SECRET, int8Parser, tokens, res>>

varsNavegador == <<localStorage, montado, notas, notasCargadas, actualizaciones, efectos>>

vars == <<varsServidor, varsNavegador>>

----------------------------------------------------------------------------
(* Bounds of the model *)

MaxUsuarios == 2
MaxDefecto == 1
MaxBase == 2
MaxRel == 3
MaxFalla == 10

SinFalla == MaxFalla + 100

Fallas == (0..MaxFalla) \cup {SinFalla}

\* agregarAplicativo and agregarNota: two statements succeed and the third, the
\* insert of the relation, throws
FallaInsertRelacion == 2

----------------------------------------------------------------------------
(* Values *)

Null == "NULL"
NoId == 0
IdAjeno == MaxBase + MaxRel + MaxUsuarios + 1

Min(a, b) == IF a < b THEN a ELSE b

Nombres == {"Ana"}
Emails == {"ana@siged.co", "luis@siged.co"}
Contrasenas == {"p1", "p2"}

NoUsuario == [id |-> NoId, nombre |-> Null, email |-> Null]
NoToken == [id |-> NoId, email |-> Null]

Resp(status, mensaje) == [status |-> status, mensaje |-> mensaje, id |-> NoId, base_id |-> NoId, eliminado |-> Null, nombre |-> Null, usuario |-> NoUsuario, token |-> NoToken, relaciones |-> 0]

Tablas == [usuarios |-> usuarios, aplicativos_base |-> aplicativos_base, aplicativos_rel |-> aplicativos_rel, plantillas_base |-> plantillas_base, notas_despacho_rel |-> notas_despacho_rel, uuid |-> uuid]

Resultado(d, r, t) == [d |-> d, res |-> r, tokens |-> t]

----------------------------------------------------------------------------
(* JavaScript and PostgreSQL values *)

Int8(n) == [tipo |-> int8Parser, n |-> n]

Mayor(c, n) == c.n > n

MenorIgual(c, n) == c.n <= n

EstrictamenteIgual(c, n) == c.tipo = "number" /\ c.n = n

Trim(s) == IF s \in {"", " ", "  "} THEN "" ELSE s

Truthy(v) == v \notin {"", "false", Null}

O(v, w) == IF Truthy(v) THEN v ELSE w

Bool(b) == IF b THEN "true" ELSE "false"

----------------------------------------------------------------------------
(* Ordering of the rows a SELECT ... ORDER BY returns *)

Colacion == <<"", "Almacenamiento", "Calendario", "Comunicacion", "Correo", "Gmail", "Google Calendar", "Google Drive", "Intranet", "Mi App", "Microsoft Office", "Personalizado", "Productividad", "WhatsApp Web">>

Rango(s) == CHOOSE i \in 1..Len(Colacion) : Colacion[i] = s

MenorAplicativo(a, b) ==
    \/ Rango(a.categoria) < Rango(b.categoria)
    \/ a.categoria = b.categoria /\ Rango(a.nombre) < Rango(b.nombre)
    \/ a.categoria = b.categoria /\ a.nombre = b.nombre /\ a.id < b.id

RECURSIVE OrdenAplicativos(_)
OrdenAplicativos(S) ==
    IF S = {} THEN <<>>
    ELSE LET m == CHOOSE x \in S : \A y \in S \ {x} : MenorAplicativo(x, y)
         IN  <<m>> \o OrdenAplicativos(S \ {m})

RECURSIVE OrdenPorId(_)
OrdenPorId(S) ==
    IF S = {} THEN <<>>
    ELSE LET m == CHOOSE x \in S : \A y \in S : x.id <= y.id
         IN  <<m>> \o OrdenPorId(S \ {m})

----------------------------------------------------------------------------
(* authController: default content *)

aplicativosDefecto == <<
    [nombre |-> "Gmail", url |-> "https://mail.google.com", categoria |-> "Correo"],
    [nombre |-> "Google Drive", url |-> "https://drive.google.com", categoria |-> "Almacenamiento"],
    [nombre |-> "Google Calendar", url |-> "https://calendar.google.com", categoria |-> "Calendario"],
    [nombre |-> "Microsoft Office", url |-> "https://office.com", categoria |-> "Productividad"],
    [nombre |-> "WhatsApp Web", url |-> "https://web.whatsapp.com", categoria |-> "Comunicacion"] >>

plantillasDefecto == <<
    [novedad |-> "Bienvenida", nota_publica |-> "...", nota_interna |-> "...", nota_avances |-> "...", plantilla |-> "Plantilla de bienvenida para nuevos usuarios"],
    [novedad |-> "Nota General", nota_publica |-> "...", nota_interna |-> "...", nota_avances |-> "...", plantilla |-> "Plantilla general para uso diario"],
    [novedad |-> "Recordatorio", nota_publica |-> "...", nota_interna |-> "...", nota_avances |-> "...", plantilla |-> "Plantilla para recordatorios importantes"] >>

\* The model seeds the first MaxDefecto entries of a default list.
Defecto(lista) == SubSeq(lista, 1, Min(Len(lista), MaxDefecto))

\* A helper's outcome: the tables, the statements still allowed to succeed, and
\* whether it threw.
Sale(d, f, lanzo) == [d |-> d, f |-> f, lanzo |-> lanzo]

crearAplicativosBasePorDefecto(d, f) ==
    IF f = 0 THEN Sale(d, 0, TRUE)
    ELSE IF Mayor(Int8(Cardinality(d.aplicativos_base)), 0) THEN Sale(d, f - 1, FALSE)
    ELSE LET lista == Defecto(aplicativosDefecto)
             k == Min(f - 1, Len(lista))
             nuevas == { [id |-> d.uuid.ab + i, nombre |-> lista[i].nombre, url |-> lista[i].url, categoria |-> lista[i].categoria] : i \in 1..k }
         IN  Sale([d EXCEPT !.aplicativos_base = @ \cup nuevas, !.uuid.ab = @ + k], (f - 1) - k, f - 1 < Len(lista))

crearPlantillasBasePorDefecto(d, f) ==
    IF f = 0 THEN Sale(d, 0, TRUE)
    ELSE IF Mayor(Int8(Cardinality(d.plantillas_base)), 0) THEN Sale(d, f - 1, FALSE)
    ELSE LET lista == Defecto(plantillasDefecto)
             k == Min(f - 1, Len(lista))
             nuevas == { [id |-> d.uuid.pb + i, novedad |-> lista[i].novedad, nota_publica |-> lista[i].nota_publica, nota_interna |-> lista[i].nota_interna, nota_avances |-> lista[i].nota_avances, plantilla |-> lista[i].plantilla] : i \in 1..k }
         IN  Sale([d EXCEPT !.plantillas_base = @ \cup nuevas, !.uuid.pb = @ + k], (f - 1) - k, f - 1 < Len(lista))

\* The assignment restricted to the seeded aplicativos, skipping the ones users added
asignarAplicativosPorDefecto_SoloSembrados(d, usuario_id, f) ==
    LET c == crearAplicativosBasePorDefecto(d, f)
    IN  IF c.lanzo THEN c
        ELSE IF c.f = 0 THEN Sale(c.d, 0, TRUE)
        ELSE LET rows == OrdenAplicativos({b \in c.d.aplicativos_base : b.categoria # "Personalizado"})
                 k == Min(c.f - 1, Len(rows))
                 nuevas == { [id |-> c.d.uuid.ar + i, usuario_id |-> usuario_id, aplicativo_base_id |-> rows[i].id, creado_en |-> c.d.uuid.ar + i] : i \in 1..k }
             IN  Sale([c.d EXCEPT !.aplicativos_rel = @ \cup nuevas, !.uuid.ar = @ + k], (c.f - 1) - k, c.f - 1 < Len(rows))

asignarAplicativosPorDefecto(d, usuario_id, f) ==
    LET c == crearAplicativosBasePorDefecto(d, f)
    IN  IF c.lanzo THEN c
        ELSE IF c.f = 0 THEN Sale(c.d, 0, TRUE)
        ELSE LET rows == OrdenAplicativos(c.d.aplicativos_base)
                 k == Min(c.f - 1, Len(rows))
                 nuevas == { [id |-> c.d.uuid.ar + i, usuario_id |-> usuario_id, aplicativo_base_id |-> rows[i].id, creado_en |-> c.d.uuid.ar + i] : i \in 1..k }
             IN  Sale([c.d EXCEPT !.aplicativos_rel = @ \cup nuevas, !.uuid.ar = @ + k], (c.f - 1) - k, c.f - 1 < Len(rows))

asignarPlantillasPorDefecto(d, usuario_id, f) ==
    LET c == crearPlantillasBasePorDefecto(d, f)
    IN  IF c.lanzo THEN c
        ELSE IF c.f = 0 THEN Sale(c.d, 0, TRUE)
        ELSE LET rows == OrdenPorId(c.d.plantillas_base)
                 k == Min(c.f - 1, Len(rows))
                 nuevas == { [id |-> c.d.uuid.nr + i, usuario_id |-> usuario_id, plantilla_id |-> rows[i].id, creado_en |-> c.d.uuid.nr + i] : i \in 1..k }
             IN  Sale([c.d EXCEPT !.notas_despacho_rel = @ \cup nuevas, !.uuid.nr = @ + k], (c.f - 1) - k, c.f - 1 < Len(rows))

\* The two assignments with a failed one undone, as a transaction would
asignarContenido_Atomico(d, usuario_id, f) ==
    LET p == asignarPlantillasPorDefecto(d, usuario_id, f)
        a == asignarAplicativosPorDefecto(p.d, usuario_id, p.f)
    IN  IF p.lanzo THEN Sale(d, p.f, TRUE)
        ELSE IF a.lanzo THEN Sale(d, a.f, TRUE)
        ELSE a

\* The try block of registrarUsuario around the two assignments: the second
\* runs only when the first did not throw, and the throw is swallowed.
asignarContenido(d, usuario_id, f) ==
    LET p == asignarPlantillasPorDefecto(d, usuario_id, f)
    IN  IF p.lanzo THEN p ELSE asignarAplicativosPorDefecto(p.d, usuario_id, p.f)

----------------------------------------------------------------------------
(* authController: handlers *)

jwtSign(id, email) == [id |-> id, email |-> email]

\* Registration without the check for an existing email
registrarUsuario_SinValidacion(d, nombre, email, contrasena, f) ==
    IF f \in {0, 1} THEN Resultado(d, Resp(500, "Error en el servidor"), tokens)
    ELSE LET id == d.uuid.u + 1
             d1 == [d EXCEPT !.usuarios = @ \cup {[id |-> id, nombre |-> nombre, email |-> email, contrasena |-> contrasena]}, !.uuid.u = id]
             a == asignarContenido(d1, id, f - 2)
         IN  IF ~JWT_SECRET THEN Resultado(a.d, Resp(500, "Error en el servidor"), tokens)
             ELSE Resultado(a.d, [Resp(201, "Registro exitoso") EXCEPT !.usuario = [id |-> id, nombre |-> nombre, email |-> email], !.token = jwtSign(id, email)], tokens \cup {jwtSign(id, email)})

registrarUsuario(d, nombre, email, contrasena, f) ==
    IF f = 0 THEN Resultado(d, Resp(500, "Error en el servidor"), tokens)
    ELSE IF \E u \in d.usuarios : u.email = email
         THEN Resultado(d, Resp(400, "El correo ya esta registrado"), tokens)
    ELSE IF f = 1 THEN Resultado(d, Resp(500, "Error en el servidor"), tokens)
    ELSE LET id == d.uuid.u + 1
             d1 == [d EXCEPT !.usuarios = @ \cup {[id |-> id, nombre |-> nombre, email |-> email, contrasena |-> contrasena]}, !.uuid.u = id]
             a == asignarContenido(d1, id, f - 2)
         IN  IF ~JWT_SECRET THEN Resultado(a.d, Resp(500, "Error en el servidor"), tokens)
             ELSE Resultado(a.d, [Resp(201, "Registro exitoso") EXCEPT !.usuario = [id |-> id, nombre |-> nombre, email |-> email], !.token = jwtSign(id, email)], tokens \cup {jwtSign(id, email)})

\* Login that looks the email up and does not compare the password
loginUsuario_SinContrasena(d, email, contrasena, f) ==
    IF f = 0 THEN Resultado(d, Resp(500, "Error en el servidor"), tokens)
    ELSE LET resultado == OrdenPorId({u \in d.usuarios : u.email = email})
         IN  IF Len(resultado) = 0
             THEN Resultado(d, Resp(401, "Credenciales incorrectas"), tokens)
             ELSE IF ~JWT_SECRET THEN Resultado(d, Resp(500, "Error en el servidor"), tokens)
             ELSE LET usuario == resultado[1]
                  IN  Resultado(d, [Resp(200, "Inicio de sesion exitoso") EXCEPT !.usuario = [id |-> usuario.id, nombre |-> usuario.nombre, email |-> usuario.email], !.token = jwtSign(usuario.id, usuario.email)], tokens \cup {jwtSign(usuario.id, usuario.email)})

loginUsuario(d, email, contrasena, f) ==
    IF f = 0 THEN Resultado(d, Resp(500, "Error en el servidor"), tokens)
    ELSE LET resultado == OrdenPorId({u \in d.usuarios : u.email = email})
         IN  IF Len(resultado) = 0 \/ resultado[1].contrasena # contrasena
             THEN Resultado(d, Resp(401, "Credenciales incorrectas"), tokens)
             ELSE IF ~JWT_SECRET THEN Resultado(d, Resp(500, "Error en el servidor"), tokens)
             ELSE LET usuario == resultado[1]
                  IN  Resultado(d, [Resp(200, "Inicio de sesion exitoso") EXCEPT !.usuario = [id |-> usuario.id, nombre |-> usuario.nombre, email |-> usuario.email], !.token = jwtSign(usuario.id, usuario.email)], tokens \cup {jwtSign(usuario.id, usuario.email)})

\* authMiddleware.  A header is what authHeader.split(" ") makes of it: the
\* number of parts (0: no header), the first part and the token part.
toLowerCase(s) == IF s \in {"Bearer", "BEARER", "bearer"} THEN "bearer" ELSE IF s = "Basic" THEN "basic" ELSE s

\* jwt.verify: the payload of a token signed with the secret, not expired and
\* not dated in the future (nbf).
jwtVerify(token) ==
    IF token.estado = "valido" THEN [ok |-> TRUE, decoded |-> [id |-> token.id, email |-> token.email], name |-> Null]
    ELSE IF token.estado = "expirado" THEN [ok |-> FALSE, decoded |-> NoToken, name |-> "TokenExpiredError"]
    ELSE IF token.estado = "noactivo" THEN [ok |-> FALSE, decoded |-> NoToken, name |-> "NotBeforeError"]
    ELSE [ok |-> FALSE, decoded |-> NoToken, name |-> "JsonWebTokenError"]

Veredicto(next, usuario, r) == [next |-> next, usuario |-> usuario, res |-> r]

\* The middleware without the test of the scheme
verificarToken_SinEsquema(h) ==
    IF h.n = 0 THEN Veredicto(FALSE, NoToken, Resp(401, "Token no proporcionado"))
    ELSE IF h.n # 2
         THEN Veredicto(FALSE, NoToken, Resp(401, "Formato de token invalido (Esperado: Bearer <token>)"))
    ELSE IF ~JWT_SECRET THEN Veredicto(FALSE, NoToken, Resp(500, "Error de configuracion del servidor"))
    ELSE LET v == jwtVerify(h.token)
         IN  IF v.ok THEN Veredicto(TRUE, v.decoded, Resp(0, Null))
             ELSE IF v.name = "TokenExpiredError" THEN Veredicto(FALSE, NoToken, Resp(401, "Token expirado"))
             ELSE IF v.name = "JsonWebTokenError" THEN Veredicto(FALSE, NoToken, Resp(403, "Token invalido (Firma o formato incorrecto)"))
             ELSE Veredicto(FALSE, NoToken, Resp(403, "Token invalido"))

\* The middleware testing the secret before the header
verificarToken_SecretoPrimero(h) ==
    IF ~JWT_SECRET THEN Veredicto(FALSE, NoToken, Resp(500, "Error de configuracion del servidor"))
    ELSE IF h.n = 0 THEN Veredicto(FALSE, NoToken, Resp(401, "Token no proporcionado"))
    ELSE IF h.n # 2 \/ toLowerCase(h.esquema) # "bearer"
         THEN Veredicto(FALSE, NoToken, Resp(401, "Formato de token invalido (Esperado: Bearer <token>)"))
    ELSE LET v == jwtVerify(h.token)
         IN  IF v.ok THEN Veredicto(TRUE, v.decoded, Resp(0, Null))
             ELSE IF v.name = "TokenExpiredError" THEN Veredicto(FALSE, NoToken, Resp(401, "Token expirado"))
             ELSE IF v.name = "JsonWebTokenError" THEN Veredicto(FALSE, NoToken, Resp(403, "Token invalido (Firma o formato incorrecto)"))
             ELSE Veredicto(FALSE, NoToken, Resp(403, "Token invalido"))

verificarToken(h) ==
    IF h.n = 0 THEN Veredicto(FALSE, NoToken, Resp(401, "Token no proporcionado"))
    ELSE IF h.n # 2 \/ toLowerCase(h.esquema) # "bearer"
         THEN Veredicto(FALSE, NoToken, Resp(401, "Formato de token invalido (Esperado: Bearer <token>)"))
    ELSE IF ~JWT_SECRET THEN Veredicto(FALSE, NoToken, Resp(500, "Error de configuracion del servidor"))
    ELSE LET v == jwtVerify(h.token)
         IN  IF v.ok THEN Veredicto(TRUE, v.decoded, Resp(0, Null))
             ELSE IF v.name = "TokenExpiredError" THEN Veredicto(FALSE, NoToken, Resp(401, "Token expirado"))
             ELSE IF v.name = "JsonWebTokenError" THEN Veredicto(FALSE, NoToken, Resp(403, "Token invalido (Firma o formato incorrecto)"))
             ELSE Veredicto(FALSE, NoToken, Resp(403, "Token invalido"))

\* The change without the comparison of actual with the stored password
cambiarContrasena_SinActual(d, usuario, actual, nueva, f) ==
    IF f = 0 THEN Resultado(d, Resp(500, "Error en el servidor"), tokens)
    ELSE LET resultado == OrdenPorId({u \in d.usuarios : u.email = usuario.email})
         IN  IF Len(resultado) = 0
             THEN Resultado(d, Resp(401, "Contrasena actual incorrecta"), tokens)
             ELSE IF f = 1 THEN Resultado(d, Resp(500, "Error en el servidor"), tokens)
             ELSE Resultado([d EXCEPT !.usuarios = { IF u.email = usuario.email THEN [u EXCEPT !.contrasena = nueva] ELSE u : u \in @ }], Resp(200, "Contrasena actualizada correctamente"), tokens)

cambiarContrasena(d, usuario, actual, nueva, f) ==
    IF f = 0 THEN Resultado(d, Resp(500, "Error en el servidor"), tokens)
    ELSE LET resultado == OrdenPorId({u \in d.usuarios : u.email = usuario.email})
         IN  IF Len(resultado) = 0 \/ resultado[1].contrasena # actual
             THEN Resultado(d, Resp(401, "Contrasena actual incorrecta"), tokens)
             ELSE IF f = 1 THEN Resultado(d, Resp(500, "Error en el servidor"), tokens)
             ELSE Resultado([d EXCEPT !.usuarios = { IF u.email = usuario.email THEN [u EXCEPT !.contrasena = nueva] ELSE u : u \in @ }], Resp(200, "Contrasena actualizada correctamente"), tokens)

\* The recovery granted only to an email that holds an issued token
recuperarContrasena_ConToken(d, email, nueva, f) ==
    IF f = 0 THEN Resultado(d, Resp(500, "Error en el servidor"), tokens)
    ELSE IF ~ \E u \in d.usuarios : u.email = email
         THEN Resultado(d, Resp(404, "Usuario no encontrado"), tokens)
    ELSE IF ~ \E t \in tokens : t.email = email
         THEN Resultado(d, Resp(401, "Token no proporcionado"), tokens)
    ELSE IF f = 1 THEN Resultado(d, Resp(500, "Error en el servidor"), tokens)
    ELSE Resultado([d EXCEPT !.usuarios = { IF u.email = email THEN [u EXCEPT !.contrasena = nueva] ELSE u : u \in @ }], Resp(200, "Contrasena cambiada correctamente"), tokens)

recuperarContrasena(d, email, nueva, f) ==
    IF f = 0 THEN Resultado(d, Resp(500, "Error en el servidor"), tokens)
    ELSE IF ~ \E u \in d.usuarios : u.email = email
         THEN Resultado(d, Resp(404, "Usuario no encontrado"), tokens)
    ELSE IF f = 1 THEN Resultado(d, Resp(500, "Error en el servidor"), tokens)
    ELSE Resultado([d EXCEPT !.usuarios = { IF u.email = email THEN [u EXCEPT !.contrasena = nueva] ELSE u : u \in @ }], Resp(200, "Contrasena cambiada correctamente"), tokens)

asignarContenidoDefecto(d, usuario_id, f) ==
    IF usuario_id = NoId THEN Resultado(d, Resp(400, "Se requiere usuario_id"), tokens)
    ELSE IF f = 0 THEN Resultado(d, Resp(500, "Error al asignar contenido por defecto"), tokens)
    ELSE IF ~ \E u \in d.usuarios : u.id = usuario_id
         THEN Resultado(d, Resp(404, "Usuario no encontrado"), tokens)
    ELSE LET a == asignarContenido(d, usuario_id, f - 1)
         IN  IF a.lanzo THEN Resultado(a.d, Resp(500, "Error al asignar contenido por defecto"), tokens)
             ELSE Resultado(a.d, Resp(200, "Contenido por defecto asignado exitosamente al usuario"), tokens)

----------------------------------------------------------------------------
(* aplicativosController *)

RECURSIVE OrdenCreadoEnDesc(_)
OrdenCreadoEnDesc(S) ==
    IF S = {} THEN <<>>
    ELSE LET m == CHOOSE x \in S : \A y \in S : x.creado_en >= y.creado_en
         IN  <<m>> \o OrdenCreadoEnDesc(S \ {m})

\* GET /api/aplicativos?usuario_id=ID: the rows of the user joined with their
\* base, newest first.  It reads and changes nothing.
obtenerAplicativos(d, usuario_id, f) ==
    IF f = 0 THEN [status |-> 500, rows |-> <<>>]
    ELSE [status |-> 200,
          rows |-> OrdenCreadoEnDesc({ [id |-> ar.id, nombre |-> ab.nombre, url |-> ab.url, categoria |-> ab.categoria, creado_en |-> ar.creado_en] :
                        <<ar, ab>> \in { p \in d.aplicativos_rel \X d.aplicativos_base : p[1].aplicativo_base_id = p[2].id /\ p[1].usuario_id = usuario_id } })]

\* Both inserts inside one transaction: a failed relation insert rolls the base insert back
agregarAplicativo_Transaccion(d, usuario_id, nombre, url, categoria, f) ==
    IF usuario_id = NoId \/ ~Truthy(nombre)
    THEN Resultado(d, Resp(400, "Se requieren usuario_id y nombre como minimo"), tokens)
    ELSE IF f = 0 THEN Resultado(d, Resp(500, "Error al agregar aplicativo personalizado"), tokens)
    ELSE IF ~ \E u \in d.usuarios : u.id = usuario_id
         THEN Resultado(d, Resp(404, "Usuario no encontrado"), tokens)
    ELSE IF f \in {1, 2} THEN Resultado(d, Resp(500, "Error al agregar aplicativo personalizado"), tokens)
    ELSE LET aplicativoId == d.uuid.ab + 1
             relacionId == d.uuid.ar + 1
             d2 == [d EXCEPT !.aplicativos_base = @ \cup {[id |-> aplicativoId, nombre |-> nombre, url |-> O(url, ""), categoria |-> O(categoria, "Personalizado")]}, !.uuid.ab = aplicativoId, !.aplicativos_rel = @ \cup {[id |-> relacionId, usuario_id |-> usuario_id, aplicativo_base_id |-> aplicativoId, creado_en |-> relacionId]}, !.uuid.ar = relacionId]
         IN  Resultado(d2, [Resp(201, "Aplicativo personalizado creado exitosamente") EXCEPT !.id = relacionId, !.base_id = aplicativoId], tokens)

agregarAplicativo(d, usuario_id, nombre, url, categoria, f) ==
    IF usuario_id = NoId \/ ~Truthy(nombre)
    THEN Resultado(d, Resp(400, "Se requieren usuario_id y nombre como minimo"), tokens)
    ELSE IF f = 0 THEN Resultado(d, Resp(500, "Error al agregar aplicativo personalizado"), tokens)
    ELSE IF ~ \E u \in d.usuarios : u.id = usuario_id
         THEN Resultado(d, Resp(404, "Usuario no encontrado"), tokens)
    ELSE IF f = 1 THEN Resultado(d, Resp(500, "Error al agregar aplicativo personalizado"), tokens)
    ELSE LET aplicativoId == d.uuid.ab + 1
             d1 == [d EXCEPT !.aplicativos_base = @ \cup {[id |-> aplicativoId, nombre |-> nombre, url |-> O(url, ""), categoria |-> O(categoria, "Personalizado")]}, !.uuid.ab = aplicativoId]
         IN  IF f = 2 THEN Resultado(d1, Resp(500, "Error al agregar aplicativo personalizado"), tokens)
             ELSE LET relacionId == d1.uuid.ar + 1
                      d2 == [d1 EXCEPT !.aplicativos_rel = @ \cup {[id |-> relacionId, usuario_id |-> usuario_id, aplicativo_base_id |-> aplicativoId, creado_en |-> relacionId]}, !.uuid.ar = relacionId]
                  IN  Resultado(d2, [Resp(201, "Aplicativo personalizado creado exitosamente") EXCEPT !.id = relacionId, !.base_id = aplicativoId], tokens)

asignarAplicativo(d, usuario_id, aplicativo_base_id, f) ==
    IF usuario_id = NoId \/ aplicativo_base_id = NoId
    THEN Resultado(d, Resp(400, "Se requieren usuario_id y aplicativo_base_id"), tokens)
    ELSE IF f = 0 THEN Resultado(d, Resp(500, "Error al asignar aplicativo"), tokens)
    ELSE IF ~ \E u \in d.usuarios : u.id = usuario_id
         THEN Resultado(d, Resp(404, "Usuario no encontrado"), tokens)
    ELSE IF f = 1 THEN Resultado(d, Resp(500, "Error al asignar aplicativo"), tokens)
    ELSE IF ~ \E b \in d.aplicativos_base : b.id = aplicativo_base_id
         THEN Resultado(d, Resp(404, "Aplicativo base no encontrado"), tokens)
    ELSE IF f = 2 THEN Resultado(d, Resp(500, "Error al asignar aplicativo"), tokens)
    ELSE IF \E r \in d.aplicativos_rel : r.usuario_id = usuario_id /\ r.aplicativo_base_id = aplicativo_base_id
         THEN Resultado(d, Resp(409, "El aplicativo ya esta agregado para este usuario"), tokens)
    ELSE IF f = 3 THEN Resultado(d, Resp(500, "Error al asignar aplicativo"), tokens)
    ELSE LET id == d.uuid.ar + 1
         IN  Resultado([d EXCEPT !.aplicativos_rel = @ \cup {[id |-> id, usuario_id |-> usuario_id, aplicativo_base_id |-> aplicativo_base_id, creado_en |-> id]}, !.uuid.ar = id], [Resp(201, "Aplicativo asignado exitosamente") EXCEPT !.id = id], tokens)

\* The row of relacionInfo: the relation joined with its base, and COUNT(ar2.id)
\* over the relations of that base.
relacionInfoAplicativo(d, id) ==
    { [relacion_id |-> ar.id, aplicativo_base_id |-> ab.id, nombre |-> ab.nombre, total_usuarios_con_este_aplicativo |-> Int8(Cardinality({ar2 \in d.aplicativos_rel : ar2.aplicativo_base_id = ab.id}))] : ar \in {r \in d.aplicativos_rel : r.id = id}, ab \in {b \in d.aplicativos_base : \E r \in d.aplicativos_rel : r.id = id /\ r.aplicativo_base_id = b.id} }

\* The comparison written as "at least one other user or none"
esAplicativoPersonalizado_AlMenosUno(info) == info.total_usuarios_con_este_aplicativo.n >= 1

esAplicativoPersonalizado(info) == EstrictamenteIgual(info.total_usuarios_con_este_aplicativo, 1)

eliminarAplicativo(d, id, f) ==
    IF id = NoId THEN Resultado(d, Resp(400, "Se requiere el ID del aplicativo"), tokens)
    ELSE IF f = 0 THEN Resultado(d, Resp(500, "Error al eliminar aplicativo"), tokens)
    ELSE LET rows == relacionInfoAplicativo(d, id)
         IN  IF rows = {} THEN Resultado(d, Resp(404, "Aplicativo no encontrado para este usuario"), tokens)
             ELSE IF f = 1 THEN Resultado(d, Resp(500, "Error al eliminar aplicativo"), tokens)
             ELSE LET info == CHOOSE i \in rows : TRUE
                      d1 == [d EXCEPT !.aplicativos_rel = {r \in @ : r.id # id}]
                      d2 == [d1 EXCEPT !.aplicativos_base = {b \in @ : b.id # info.aplicativo_base_id}]
                  IN  IF d1.aplicativos_rel = d.aplicativos_rel
                      THEN Resultado(d1, Resp(404, "No se pudo eliminar la relacion del aplicativo"), tokens)
                      ELSE IF esAplicativoPersonalizado(info)
                      THEN IF f = 2 THEN Resultado(d1, Resp(500, "Error al eliminar aplicativo"), tokens)
                           ELSE Resultado(d2, [Resp(200, "Aplicativo eliminado correctamente") EXCEPT !.eliminado = "true", !.nombre = info.nombre], tokens)
                      ELSE Resultado(d1, [Resp(200, "Aplicativo eliminado correctamente") EXCEPT !.eliminado = "false", !.nombre = info.nombre], tokens)

----------------------------------------------------------------------------
(* notasController *)

nombresIncorrectos == {"AVANCE", "avance", "Avance"}

agregarNota(d, usuario_id, novedad, c, f) ==
    IF usuario_id = NoId \/ ~Truthy(novedad)
    THEN Resultado(d, Resp(400, "Se requieren usuario_id y novedad como minimo"), tokens)
    ELSE IF novedad \in nombresIncorrectos
    THEN Resultado(d, Resp(400, "El nombre 'AVANCE' no es valido para una plantilla base. Use un nombre descriptivo."), tokens)
    ELSE IF f = 0 THEN Resultado(d, Resp(500, "Error al agregar nota personalizada"), tokens)
    ELSE IF ~ \E u \in d.usuarios : u.id = usuario_id
         THEN Resultado(d, Resp(404, "Usuario no encontrado"), tokens)
    ELSE IF f = 1 THEN Resultado(d, Resp(500, "Error al agregar nota personalizada"), tokens)
    ELSE LET plantillaId == d.uuid.pb + 1
             d1 == [d EXCEPT !.plantillas_base = @ \cup {[id |-> plantillaId, novedad |-> novedad, nota_publica |-> O(c.nota_publica, ""), nota_interna |-> O(c.nota_interna, ""), nota_avances |-> O(c.nota_avances, ""), plantilla |-> O(c.plantilla, "")]}, !.uuid.pb = plantillaId]
         IN  IF f = 2 THEN Resultado(d1, Resp(500, "Error al agregar nota personalizada"), tokens)
             ELSE LET relacionId == d1.uuid.nr + 1
                      d2 == [d1 EXCEPT !.notas_despacho_rel = @ \cup {[id |-> relacionId, usuario_id |-> usuario_id, plantilla_id |-> plantillaId, creado_en |-> relacionId]}, !.uuid.nr = relacionId]
                  IN  Resultado(d2, [Resp(201, "Nota personalizada creada exitosamente") EXCEPT !.id = relacionId, !.base_id = plantillaId], tokens)

\* The handler without its check for an existing relation
asignarNota_SinConflicto(d, usuario_id, plantilla_id, f) ==
    IF usuario_id = NoId \/ plantilla_id = NoId
    THEN Resultado(d, Resp(400, "Se requieren usuario_id y plantilla_id"), tokens)
    ELSE IF f < 3 THEN Resultado(d, Resp(500, "Error al asignar nota"), tokens)
    ELSE IF ~ \E u \in d.usuarios : u.id = usuario_id
         THEN Resultado(d, Resp(404, "Usuario no encontrado"), tokens)
    ELSE IF ~ \E b \in d.plantillas_base : b.id = plantilla_id
         THEN Resultado(d, Resp(404, "Plantilla base no encontrada"), tokens)
    ELSE IF f = 3 THEN Resultado(d, Resp(500, "Error al asignar nota"), tokens)
    ELSE LET id == d.uuid.nr + 1
         IN  Resultado([d EXCEPT !.notas_despacho_rel = @ \cup {[id |-> id, usuario_id |-> usuario_id, plantilla_id |-> plantilla_id, creado_en |-> id]}, !.uuid.nr = id], [Resp(201, "Nota asignada exitosamente") EXCEPT !.id = id], tokens)

\* The three SELECTs run under one Promise.all: a throw of any of them rejects
\* before the first check.
asignarNota(d, usuario_id, plantilla_id, f) ==
    IF usuario_id = NoId \/ plantilla_id = NoId
    THEN Resultado(d, Resp(400, "Se requieren usuario_id y plantilla_id"), tokens)
    ELSE IF f < 3 THEN Resultado(d, Resp(500, "Error al asignar nota"), tokens)
    ELSE IF ~ \E u \in d.usuarios : u.id = usuario_id
         THEN Resultado(d, Resp(404, "Usuario no encontrado"), tokens)
    ELSE IF ~ \E b \in d.plantillas_base : b.id = plantilla_id
         THEN Resultado(d, Resp(404, "Plantilla base no encontrada"), tokens)
    ELSE IF \E r \in d.notas_despacho_rel : r.usuario_id = usuario_id /\ r.plantilla_id = plantilla_id
         THEN Resultado(d, Resp(409, "La nota ya esta agregada para este usuario"), tokens)
    ELSE IF f = 3 THEN Resultado(d, Resp(500, "Error al asignar nota"), tokens)
    ELSE LET id == d.uuid.nr + 1
         IN  Resultado([d EXCEPT !.notas_despacho_rel = @ \cup {[id |-> id, usuario_id |-> usuario_id, plantilla_id |-> plantilla_id, creado_en |-> id]}, !.uuid.nr = id], [Resp(201, "Nota asignada exitosamente") EXCEPT !.id = id], tokens)

relacionInfoNota(d, id) ==
    { [relacion_id |-> ndr.id, plantilla_id |-> pb.id, novedad |-> pb.novedad, nota_publica |-> pb.nota_publica, nota_interna |-> pb.nota_interna, nota_avances |-> pb.nota_avances, plantilla |-> pb.plantilla, total_usuarios_con_esta_plantilla |-> Int8(Cardinality({ndr2 \in d.notas_despacho_rel : ndr2.plantilla_id = pb.id}))] : ndr \in {r \in d.notas_despacho_rel : r.id = id}, pb \in {b \in d.plantillas_base : \E r \in d.notas_despacho_rel : r.id = id /\ r.plantilla_id = b.id} }

\* s?.trim(): undefined for a NULL column
trimOpcional(s) == IF s = Null THEN Null ELSE Trim(s)

\* !v
No(v) == Bool(~Truthy(v))

\* v && w
Y(v, w) == IF Truthy(v) THEN w ELSE v

esNotaAvancesPura(info) == Y(Y(Y(trimOpcional(info.nota_avances), No(trimOpcional(info.nota_publica))), No(trimOpcional(info.nota_interna))), No(trimOpcional(info.plantilla)))

esPlantillaPersonalizada(info) == IF MenorIgual(info.total_usuarios_con_esta_plantilla, 1) THEN "true" ELSE esNotaAvancesPura(info)

eliminarNota(d, id, f) ==
    IF id = NoId THEN Resultado(d, Resp(400, "Se requiere el ID de la nota"), tokens)
    ELSE IF f = 0 THEN Resultado(d, Resp(500, "Error al eliminar nota"), tokens)
    ELSE LET rows == relacionInfoNota(d, id)
         IN  IF rows = {} THEN Resultado(d, Resp(404, "Nota no encontrada"), tokens)
             ELSE IF f = 1 THEN Resultado(d, Resp(500, "Error al eliminar nota"), tokens)
             ELSE LET info == CHOOSE i \in rows : TRUE
                      d1 == [d EXCEPT !.notas_despacho_rel = {r \in @ : r.id # id}]
                      d2 == [d1 EXCEPT !.plantillas_base = {b \in @ : b.id # info.plantilla_id}]
                  IN  IF d1.notas_despacho_rel = d.notas_despacho_rel
                      THEN Resultado(d1, Resp(404, "No se pudo eliminar la relacion de la nota"), tokens)
                      ELSE IF Truthy(esPlantillaPersonalizada(info))
                      THEN IF f = 2 THEN Resultado(d1, Resp(500, "Error al eliminar nota"), tokens)
                           ELSE Resultado(d2, [Resp(200, "Nota eliminada correctamente") EXCEPT !.eliminado = esPlantillaPersonalizada(info), !.nombre = info.novedad], tokens)
                      ELSE Resultado(d1, [Resp(200, "Nota eliminada correctamente") EXCEPT !.eliminado = esPlantillaPersonalizada(info), !.nombre = info.novedad], tokens)

limpiarNotaAvances(d, id, f) ==
    IF f = 0 THEN Resultado(d, Resp(500, "Error al limpiar nota de avances"), tokens)
    ELSE IF ~ \E b \in d.plantillas_base : b.id = id
         THEN Resultado(d, Resp(404, "Plantilla no encontrada"), tokens)
    ELSE Resultado([d EXCEPT !.plantillas_base = { IF b.id = id THEN [b EXCEPT !.nota_avances = Null] ELSE b : b \in @ }], Resp(200, "Nota de avances eliminada correctamente"), tokens)

\* The deletion of the base row alone, its relations left behind
eliminarPlantillaAdicional_SoloBase(d, id, f) ==
    IF id = NoId THEN Resultado(d, Resp(400, "Se requiere el ID de la plantilla"), tokens)
    ELSE IF f = 0 THEN Resultado(d, Resp(500, "Error al eliminar plantilla"), tokens)
    ELSE LET plantillaExiste == {b \in d.plantillas_base : b.id = id}
         IN  IF plantillaExiste = {} THEN Resultado(d, Resp(404, "Plantilla no encontrada"), tokens)
             ELSE IF f \in {1, 2} THEN Resultado(d, Resp(500, "Error al eliminar plantilla"), tokens)
             ELSE LET plantilla == CHOOSE b \in plantillaExiste : TRUE
                      d2 == [d EXCEPT !.plantillas_base = {b \in @ : b.id # id}]
                  IN  Resultado(d2, [Resp(200, "Plantilla eliminada completamente") EXCEPT !.nombre = plantilla.novedad, !.relaciones = Cardinality({r \in d.notas_despacho_rel : r.plantilla_id = id})], tokens)

eliminarPlantillaAdicional(d, id, f) ==
    IF id = NoId THEN Resultado(d, Resp(400, "Se requiere el ID de la plantilla"), tokens)
    ELSE IF f = 0 THEN Resultado(d, Resp(500, "Error al eliminar plantilla"), tokens)
    ELSE LET plantillaExiste == {b \in d.plantillas_base : b.id = id}
         IN  IF plantillaExiste = {} THEN Resultado(d, Resp(404, "Plantilla no encontrada"), tokens)
             ELSE IF f = 1 THEN Resultado(d, Resp(500, "Error al eliminar plantilla"), tokens)
             ELSE LET plantilla == CHOOSE b \in plantillaExiste : TRUE
                      borradas == {r \in d.notas_despacho_rel : r.plantilla_id = id}
                      d1 == [d EXCEPT !.notas_despacho_rel = @ \ borradas]
                      d2 == [d1 EXCEPT !.plantillas_base = {b \in @ : b.id # id}]
                  IN  IF f = 2 THEN Resultado(d1, Resp(500, "Error al eliminar plantilla"), tokens)
                      ELSE Resultado(d2, [Resp(200, "Plantilla eliminada completamente") EXCEPT !.nombre = plantilla.novedad, !.relaciones = Cardinality(borradas)], tokens)

----------------------------------------------------------------------------
(* The browser: components NotasRapidas and NovedadesAsesor, which keep a
   list in a React state and persist it in localStorage with two effects *)

MaxNotas == 2

IdsNota == 1..MaxNotas

\* The lists of notes the model considers, each note standing by its id
Listas == {s \in UNION {[1..n -> IdsNota] : n \in 0..MaxNotas} : \A i, j \in DOMAIN s : s[i] = s[j] => i = j}

Componentes == {"NotasRapidas", "NovedadesAsesor"}

SinComponente == "ninguno"

\* The key each component reads and writes
Clave(componente) == IF componente = "NotasRapidas" THEN "notasRapidas" ELSE "novedadesAsesor"

Claves == {Clave(c) : c \in Componentes}

\* JavaScript values a state can hold
Arreglo(v) == [tipo |-> "array", v |-> v]

Objeto == [tipo |-> "object", v |-> <<>>]

\* What getItem returns: null for a missing key, otherwise the string, which
\* is the JSON of an array of notes, the JSON of another value, not JSON at
\* all, or empty
Ausente == [json |-> "null", v |-> <<>>]

CadenaVacia == [json |-> "", v |-> <<>>]

NoJson == [json |-> "invalido", v |-> <<>>]

JsonObjeto == [json |-> "object", v |-> <<>>]

JsonArreglo(v) == [json |-> "array", v |-> v]

Almacenados == {Ausente, CadenaVacia, NoJson, JsonObjeto} \cup {JsonArreglo(v) : v \in Listas}

\* if (notasGuardadas): null and the empty string are falsy
CadenaTruthy(s) == s.json \notin {"null", ""}

\* JSON.parse throws a SyntaxError on a string that is not JSON
JSONparse(s) ==
    IF s.json = "array" THEN [lanza |-> FALSE, valor |-> Arreglo(s.v)]
    ELSE IF s.json = "object" THEN [lanza |-> FALSE, valor |-> Objeto]
    ELSE [lanza |-> TRUE, valor |-> Objeto]

JSONstringify(x) == IF x.tipo = "array" THEN JsonArreglo(x.v) ELSE JsonObjeto

ArrayIsArray(x) == x.tipo = "array"

\* Calls of the state setters: with a value, or with a function of the previous state
SetNotas(x) == [set |-> "notas", fn |-> "valor", valor |-> x, id |-> 0]

SetNotasPrev(fn, id) == [set |-> "notas", fn |-> fn, valor |-> Arreglo(<<>>), id |-> id]

SetNotasCargadas == [set |-> "notasCargadas", fn |-> "valor", valor |-> Arreglo(<<>>), id |-> 0]

\* NotasRapidas, the effect that loads the notes on mount
cargarNotasRapidas(almacen) ==
    LET notasGuardadas == almacen["notasRapidas"]
        notasParseadas == JSONparse(notasGuardadas)
    IN  IF ~CadenaTruthy(notasGuardadas) THEN <<SetNotasCargadas>>
        ELSE IF notasParseadas.lanza THEN <<SetNotas(Arreglo(<<>>)), SetNotasCargadas>>
        ELSE IF ArrayIsArray(notasParseadas.valor) THEN <<SetNotas(notasParseadas.valor), SetNotasCargadas>>
        ELSE <<SetNotasCargadas>>

\* NovedadesAsesor, the effect that loads the novedades on mount: whatever
\* JSON.parse returns becomes the state
cargarNovedadesAsesor(almacen) ==
    LET guardadas == almacen["novedadesAsesor"]
    IN  IF CadenaTruthy(guardadas) /\ ~JSONparse(guardadas).lanza
        THEN <<SetNotas(JSONparse(guardadas).valor), SetNotasCargadas>>
        ELSE <<SetNotasCargadas>>

efectoCargar(componente, almacen) ==
    IF componente = "NotasRapidas" THEN cargarNotasRapidas(almacen) ELSE cargarNovedadesAsesor(almacen)

\* The save effect with its guard removed
efectoGuardar_SinBandera(componente, almacen, n, cargadas) ==
    [almacen EXCEPT ![Clave(componente)] = JSONstringify(n)]

\* The effect that saves the list, with the values of the render that
\* scheduled it: it writes only once notasCargadas (cargado) is true
efectoGuardar(componente, almacen, n, cargadas) ==
    IF cargadas THEN [almacen EXCEPT ![Clave(componente)] = JSONstringify(n)] ELSE almacen

\* One queued update applied to the state
Reducir(e, u) ==
    IF u.set = "notasCargadas" THEN [e EXCEPT !.notasCargadas = TRUE]
    ELSE IF u.fn = "valor" THEN [e EXCEPT !.notas = u.valor]
    ELSE IF u.fn = "anteponer" THEN [e EXCEPT !.notas = Arreglo(<<u.id>> \o e.notas.v)]
    ELSE [e EXCEPT !.notas = Arreglo(SelectSeq(e.notas.v, LAMBDA x : x # u.id))]

RECURSIVE Aplicar(_, _)
Aplicar(e, ups) == IF ups = <<>> THEN e ELSE Aplicar(Reducir(e, Head(ups)), Tail(ups))

\* The dependencies [notas, notasCargadas] of the save effect changed: every
\* setNotas hands React a new array
CambianDeps(e, ups) ==
    \/ \E i \in DOMAIN ups : ups[i].set = "notas"
    \/ e.notasCargadas # notasCargadas

EnLista(id, n) == \E i \in DOMAIN n.v : n.v[i] = id

----------------------------------------------------------------------------
(* The state machine *)

InitServidor ==
    /\ usuarios = {}
    /\ aplicativos_base = {}
    /\ aplicativos_rel = {}
    /\ plantillas_base = {}
    /\ notas_despacho_rel = {}
    /\ uuid = [u |-> 0, ab |-> 0, ar |-> 0, pb |-> 0, nr |-> 0]
    /\ JWT_SECRET \in BOOLEAN
    /\ int8Parser \in {"string", "number"}
    /\ tokens = {}
    /\ res = Resp(0, Null)

\* No component is mounted: its states do not exist
SinMontar ==
    /\ montado = SinComponente
    /\ notas = Arreglo(<<>>)
    /\ notasCargadas = FALSE
    /\ actualizaciones = <<>>
    /\ efectos = <<>>

Init == InitServidor /\ SinMontar /\ localStorage = [k \in Claves |-> Ausente]

\* Commit a handler's outcome; the model stops producing identifiers at its bounds.
Paso(r) ==
    /\ r.d.uuid.u <= MaxUsuarios
    /\ r.d.uuid.ab <= MaxBase /\ r.d.uuid.pb <= MaxBase
    /\ r.d.uuid.ar <= MaxRel /\ r.d.uuid.nr <= MaxRel
    /\ usuarios' = r.d.usuarios
    /\ aplicativos_base' = r.d.aplicativos_base
    /\ aplicativos_rel' = r.d.aplicativos_rel
    /\ plantillas_base' = r.d.plantillas_base
    /\ notas_despacho_rel' = r.d.notas_despacho_rel
    /\ uuid' = r.d.uuid
    /\ tokens' = r.tokens
    /\ res' = r.res
    /\ UNCHANGED <<JWT_SECRET, int8Parser>>
    /\ UNCHANGED varsNavegador

\* What a client can put in a request
IdsUsuario == {u.id : u \in usuarios} \cup {NoId, IdAjeno}

IdsAplicativoBase == {b.id : b \in aplicativos_base} \cup {NoId, IdAjeno}

IdsAplicativoRel == {r.id : r \in aplicativos_rel} \cup {NoId, IdAjeno}

IdsPlantilla == {b.id : b \in plantillas_base} \cup {r.plantilla_id : r \in notas_despacho_rel} \cup {NoId, IdAjeno}

IdsNotaRel == {r.id : r \in notas_despacho_rel} \cup {NoId, IdAjeno}

Novedades == {Null, "AVANCE", "Seguimiento"}

UnCuerpo == {[nota_publica |-> Null, nota_interna |-> " ", nota_avances |-> "Avance 1", plantilla |-> Null]}

Cuerpos == {
    [nota_publica |-> Null, nota_interna |-> " ", nota_avances |-> "Avance 1", plantilla |-> Null],
    [nota_publica |-> "Publica", nota_interna |-> Null, nota_avances |-> "Avance 1", plantilla |-> Null],
    [nota_publica |-> Null, nota_interna |-> "Interna", nota_avances |-> "Avance 1", plantilla |-> Null],
    [nota_publica |-> Null, nota_interna |-> Null, nota_avances |-> "Avance 1", plantilla |-> "Texto"],
    [nota_publica |-> Null, nota_interna |-> Null, nota_avances |-> " ", plantilla |-> Null] }

Esquemas == {"Bearer", "bearer", "Basic"}

\* Tokens a client can hold: the issued ones, fresh or past their 8 hours, and
\* forgeries naming any user.
TokensCliente ==
    { [id |-> t.id, email |-> t.email, estado |-> e] : t \in tokens, e \in {"valido", "expirado"} }
        \cup { [id |-> u.id, email |-> u.email, estado |-> "invalido"] : u \in usuarios }

SinToken == [id |-> NoId, email |-> Null, estado |-> "invalido"]

Headers ==
    {[n |-> 0, esquema |-> Null, token |-> SinToken], [n |-> 1, esquema |-> "Bearer", token |-> SinToken]}
        \cup { [n |-> 2, esquema |-> e, token |-> t] : e \in Esquemas, t \in TokensCliente }
        \cup { [n |-> 3, esquema |-> "Bearer", token |-> t] : t \in TokensCliente }

\* The statements a handler can run before one throws
FallasDe(n) == (0..Min(n, MaxFalla)) \cup {SinFalla}

PostRegistro(nombre, email, contrasena, f) == Paso(registrarUsuario(Tablas, nombre, email, contrasena, f))

PostLogin(email, contrasena, f) == Paso(loginUsuario(Tablas, email, contrasena, f))

PutCambiarContrasena(h, actual, nueva, f) ==
    LET v == verificarToken(h)
    IN  IF v.next THEN Paso(cambiarContrasena(Tablas, v.usuario, actual, nueva, f))
        ELSE Paso(Resultado(Tablas, v.res, tokens))

PutRecuperarContrasena(email, nueva, f) == Paso(recuperarContrasena(Tablas, email, nueva, f))

PostAsignarContenidoDefecto(h, usuario_id, f) ==
    LET v == verificarToken(h)
    IN  IF v.next THEN Paso(asignarContenidoDefecto(Tablas, usuario_id, f))
        ELSE Paso(Resultado(Tablas, v.res, tokens))

PostAplicativo(usuario_id, nombre, url, categoria, f) == Paso(agregarAplicativo(Tablas, usuario_id, nombre, url, categoria, f))

PostAsignarAplicativo(usuario_id, aplicativo_base_id, f) == Paso(asignarAplicativo(Tablas, usuario_id, aplicativo_base_id, f))

DeleteAplicativo(id, f) == Paso(eliminarAplicativo(Tablas, id, f))

PostNota(usuario_id, novedad, c, f) == Paso(agregarNota(Tablas, usuario_id, novedad, c, f))

PostAsignarNota(usuario_id, plantilla_id, f) == Paso(asignarNota(Tablas, usuario_id, plantilla_id, f))

DeleteNota(id, f) == Paso(eliminarNota(Tablas, id, f))

PatchLimpiarAvances(id, f) == Paso(limpiarNotaAvances(Tablas, id, f))

DeletePlantilla(id, f) == Paso(eliminarPlantillaAdicional(Tablas, id, f))

\* Inputs the specifications below share
UnaContrasena == {"p1"}

AplicativosNuevos == {
    [nombre |-> Null, url |-> Null, categoria |-> Null],
    [nombre |-> "Mi App", url |-> Null, categoria |-> Null] }

Registro == \E nombre \in Nombres, email \in Emails, contrasena \in UnaContrasena : PostRegistro(nombre, email, contrasena, SinFalla)

RegistroConFalla == \E nombre \in Nombres, email \in Emails, contrasena \in UnaContrasena, f \in Fallas : PostRegistro(nombre, email, contrasena, f)

AltaAplicativo == \E usuario_id \in IdsUsuario, a \in AplicativosNuevos, f \in FallasDe(3) : PostAplicativo(usuario_id, a.nombre, a.url, a.categoria, f)

AsignaAplicativo == \E usuario_id \in IdsUsuario, aplicativo_base_id \in IdsAplicativoBase, f \in FallasDe(4) : PostAsignarAplicativo(usuario_id, aplicativo_base_id, f)

BajaAplicativo == \E id \in IdsAplicativoRel, f \in FallasDe(3) : DeleteAplicativo(id, f)

AsignaNota == \E usuario_id \in IdsUsuario, plantilla_id \in IdsPlantilla, f \in FallasDe(4) : PostAsignarNota(usuario_id, plantilla_id, f)

BajaNota == \E id \in IdsNotaRel, f \in FallasDe(3) : DeleteNota(id, f)

LimpiaAvances == \E id \in IdsPlantilla, f \in FallasDe(1) : PatchLimpiarAvances(id, f)

BajaPlantilla == \E id \in IdsPlantilla, f \in FallasDe(3) : DeletePlantilla(id, f)

\* Requests to /api/usuarios
NextAuth ==
    \/ \E nombre \in Nombres, email \in Emails, contrasena \in Contrasenas, f \in FallasDe(2) : PostRegistro(nombre, email, contrasena, f)
    \/ \E email \in Emails, contrasena \in Contrasenas, f \in FallasDe(1) : PostLogin(email, contrasena, f)
    \/ \E h \in Headers, actual \in Contrasenas, nueva \in Contrasenas, f \in FallasDe(2) : PutCambiarContrasena(h, actual, nueva, f)
    \/ \E email \in Emails, nueva \in Contrasenas, f \in FallasDe(2) : PutRecuperarContrasena(email, nueva, f)

\* The server with its secret configured
InitConfigurado == Init /\ JWT_SECRET

\* Requests to /api/aplicativos, with the registration that seeds the tables
NextAplicativos == Registro \/ AltaAplicativo \/ AsignaAplicativo \/ BajaAplicativo

\* A request to /api/aplicativos of the client signed in as quien.  The
\* handlers take usuario_id from the body and the relation id from the path
\* and never read req.usuario: who sends the request does not restrict it.
PeticionAplicativos(quien) == AltaAplicativo \/ AsignaAplicativo \/ BajaAplicativo

\* Requests to /api/notas, with the registration that seeds the tables
NextNotas ==
    \/ Registro
    \/ \E usuario_id \in IdsUsuario, c \in Cuerpos : PostNota(usuario_id, "Seguimiento", c, SinFalla)
    \/ \E usuario_id \in IdsUsuario, plantilla_id \in IdsPlantilla : PostAsignarNota(usuario_id, plantilla_id, SinFalla)
    \/ BajaNota
    \/ LimpiaAvances
    \/ BajaPlantilla

\* The forced deletion of templates, over tables that hold shared templates
\* and relations whose template eliminarNota has deleted
NextPlantilla ==
    \/ Registro
    \/ \E u \in usuarios, c \in UnCuerpo : PostNota(u.id, "Seguimiento", c, SinFalla)
    \/ \E id \in IdsNotaRel : DeleteNota(id, SinFalla)
    \/ BajaPlantilla

\* Creation in both catalogues, any statement of the handler failing
NextAgregar ==
    \/ Registro
    \/ AltaAplicativo
    \/ \E usuario_id \in IdsUsuario, novedad \in Novedades, c \in UnCuerpo, f \in FallasDe(3) : PostNota(usuario_id, novedad, c, f)

\* Assignment of rows other requests created
NextAsignar ==
    \/ Registro
    \/ AltaAplicativo
    \/ \E usuario_id \in IdsUsuario, c \in UnCuerpo, f \in FallasDe(3) : PostNota(usuario_id, "Seguimiento", c, f)
    \/ AsignaAplicativo
    \/ AsignaNota

\* The pool with pg's default parser: the handlers of NextRegistro compare a
\* COUNT only with >, which reads a string and a number alike
InitRegistro == InitConfigurado /\ int8Parser = "string"

\* Registration over tables other requests have filled
NextRegistro ==
    \/ RegistroConFalla
    \/ \E u \in usuarios, f \in {FallaInsertRelacion, SinFalla} : PostAplicativo(u.id, "Mi App", Null, Null, f)
    \/ \E u \in usuarios, c \in UnCuerpo, f \in {FallaInsertRelacion, SinFalla} : PostNota(u.id, "Seguimiento", c, f)

\* The change of password, with the logins around it
HeadersBearer ==
    {[n |-> 0, esquema |-> Null, token |-> SinToken]} \cup { [n |-> 2, esquema |-> "Bearer", token |-> t] : t \in TokensCliente }

\* The protected routes, with every header a client can send, the tokens
\* signed for a later date included
HeadersToken ==
    {[n |-> 0, esquema |-> Null, token |-> SinToken], [n |-> 1, esquema |-> "Bearer", token |-> SinToken]}
        \cup { [n |-> 2, esquema |-> e, token |-> t] : e \in Esquemas, t \in TokensCliente }
        \cup { [n |-> 2, esquema |-> "Bearer", token |-> [id |-> t.id, email |-> t.email, estado |-> "noactivo"]] : t \in tokens }
        \cup { [n |-> 3, esquema |-> "Bearer", token |-> [id |-> t.id, email |-> t.email, estado |-> "valido"]] : t \in tokens }

NextToken ==
    \/ Registro
    \/ \E h \in HeadersToken, actual \in UnaContrasena : PutCambiarContrasena(h, actual, "p2", SinFalla)
    \/ \E h \in HeadersToken, u \in usuarios : PostAsignarContenidoDefecto(h, u.id, SinFalla)

NextCambiar ==
    \/ Registro
    \/ \E email \in Emails, contrasena \in Contrasenas : PostLogin(email, contrasena, SinFalla)
    \/ \E h \in HeadersBearer, actual \in Contrasenas, nueva \in Contrasenas, f \in FallasDe(2) : PutCambiarContrasena(h, actual, nueva, f)

\* The page shows a component: first render with the initial states, and the
\* two effects scheduled in the order the component declares them
Montar(componente) ==
    /\ montado = SinComponente
    /\ montado' = componente
    /\ notas' = Arreglo(<<>>)
    /\ notasCargadas' = FALSE
    /\ actualizaciones' = <<>>
    /\ efectos' = <<"cargar", "guardar">>
    /\ UNCHANGED <<localStorage, varsServidor>>

\* The page leaves the component, or the tab is closed: at any moment
Desmontar ==
    /\ montado # SinComponente
    /\ montado' = SinComponente
    /\ notas' = Arreglo(<<>>)
    /\ notasCargadas' = FALSE
    /\ actualizaciones' = <<>>
    /\ efectos' = <<>>
    /\ UNCHANGED <<localStorage, varsServidor>>

EfectoCargar ==
    /\ montado # SinComponente
    /\ efectos # <<>> /\ Head(efectos) = "cargar"
    /\ actualizaciones' = actualizaciones \o efectoCargar(montado, localStorage)
    /\ efectos' = Tail(efectos)
    /\ UNCHANGED <<localStorage, montado, notas, notasCargadas, varsServidor>>

EfectoGuardar ==
    /\ montado # SinComponente
    /\ efectos # <<>> /\ Head(efectos) = "guardar"
    /\ localStorage' = efectoGuardar(montado, localStorage, notas, notasCargadas)
    /\ efectos' = Tail(efectos)
    /\ UNCHANGED <<montado, notas, notasCargadas, actualizaciones, varsServidor>>

\* React renders again with the queued updates once the effects of the last
\* commit have run.  NovedadesAsesor calls novedades.map: a state that is not
\* an array throws in the render and React takes the component down.
Render ==
    /\ montado # SinComponente
    /\ efectos = <<>> /\ actualizaciones # <<>>
    /\ LET e == Aplicar([notas |-> notas, notasCargadas |-> notasCargadas], actualizaciones)
       IN  IF ArrayIsArray(e.notas)
           THEN /\ notas' = e.notas
                /\ notasCargadas' = e.notasCargadas
                /\ efectos' = IF CambianDeps(e, actualizaciones) THEN <<"guardar">> ELSE <<>>
                /\ UNCHANGED montado
           ELSE /\ montado' = SinComponente
                /\ notas' = Arreglo(<<>>)
                /\ notasCargadas' = FALSE
                /\ efectos' = <<>>
    /\ actualizaciones' = <<>>
    /\ UNCHANGED <<localStorage, varsServidor>>

\* The user can act once the component has rendered and its effects have run
Quieto(componente) == montado = componente /\ efectos = <<>> /\ actualizaciones = <<>>

crearNuevaNota ==
    /\ Quieto("NotasRapidas")
    /\ \E id \in IdsNota :
        /\ ~EnLista(id, notas)
        /\ actualizaciones' = <<SetNotasPrev("anteponer", id)>>
    /\ UNCHANGED <<localStorage, montado, notas, notasCargadas, efectos, varsServidor>>

\* notaActual is one of the notes of the list: the list keeps its ids, and the
\* handler writes it to the storage itself
guardarNota ==
    /\ Quieto("NotasRapidas")
    /\ \E notaActual \in IdsNota :
        /\ EnLista(notaActual, notas)
        /\ LET nuevasNotas == IF EnLista(notaActual, notas) THEN notas ELSE Arreglo(Append(notas.v, notaActual))
           IN  /\ actualizaciones' = <<SetNotas(nuevasNotas)>>
               /\ localStorage' = [localStorage EXCEPT !["notasRapidas"] = JSONstringify(nuevasNotas)]
    /\ UNCHANGED <<montado, notas, notasCargadas, efectos, varsServidor>>

eliminarNotaRapida ==
    /\ Quieto("NotasRapidas")
    /\ \E id \in IdsNota :
        /\ EnLista(id, notas)
        /\ actualizaciones' = <<SetNotasPrev("filtrar", id)>>
    /\ UNCHANGED <<localStorage, montado, notas, notasCargadas, efectos, varsServidor>>

limpiarTodasLasNotas ==
    /\ Quieto("NotasRapidas")
    /\ actualizaciones' = <<SetNotas(Arreglo(<<>>))>>
    /\ localStorage' = [localStorage EXCEPT !["notasRapidas"] = Ausente]
    /\ UNCHANGED <<montado, notas, notasCargadas, efectos, varsServidor>>

agregarNovedad ==
    /\ Quieto("NovedadesAsesor")
    /\ \E id \in IdsNota :
        /\ ~EnLista(id, notas)
        /\ actualizaciones' = <<SetNotas(Arreglo(<<id>> \o notas.v))>>
    /\ UNCHANGED <<localStorage, montado, notas, notasCargadas, efectos, varsServidor>>

eliminarNovedad ==
    /\ Quieto("NovedadesAsesor")
    /\ \E id \in IdsNota :
        /\ EnLista(id, notas)
        /\ actualizaciones' = <<SetNotas(Arreglo(SelectSeq(notas.v, LAMBDA n : n # id)))>>
    /\ UNCHANGED <<localStorage, montado, notas, notasCargadas, efectos, varsServidor>>

\* The browser starts with whatever earlier sessions left in the storage
InitNavegador ==
    /\ InitServidor /\ JWT_SECRET /\ int8Parser = "string"
    /\ SinMontar
    /\ localStorage \in [Claves -> Almacenados]

NextNavegador ==
    \/ \E componente \in Componentes : Montar(componente)
    \/ Desmontar
    \/ EfectoCargar
    \/ EfectoGuardar
    \/ Render
    \/ crearNuevaNota
    \/ guardarNota
    \/ eliminarNotaRapida
    \/ limpiarTodasLasNotas
    \/ agregarNovedad
    \/ eliminarNovedad

Next == NextAuth \/ NextAplicativos \/ NextNotas \/ NextAgregar \/ NextAsignar \/ NextRegistro \/ NextCambiar \/ NextToken \/ NextPlantilla \/ NextNavegador

Spec == Init /\ [][Next]_vars

SpecAuth == Init /\ [][NextAuth]_vars

SpecAplicativos == InitConfigurado /\ [][NextAplicativos]_vars

SpecNotas == InitConfigurado /\ [][NextNotas]_vars

SpecAgregar == InitConfigurado /\ [][NextAgregar]_vars

SpecAsignar == InitConfigurado /\ [][NextAsignar]_vars

SpecRegistro == InitRegistro /\ [][NextRegistro]_vars

SpecCambiar == Init /\ [][NextCambiar]_vars

SpecToken == Init /\ [][NextToken]_vars

SpecPlantilla == InitConfigurado /\ [][NextPlantilla]_vars

SpecNavegador == InitNavegador /\ [][NextNavegador]_vars

----------------------------------------------------------------------------
(* Claims about aplicativosController, checked under SpecAplicativos *)

Relaciones(id) == {r \in aplicativos_rel : r.id = id}

ReferenciasAplicativo(base_id) == {r \in aplicativos_rel : r.aplicativo_base_id = base_id}

OtrasTablasIguales == usuarios' = usuarios /\ plantillas_base' = plantillas_base /\ notas_despacho_rel' = notas_despacho_rel

\* C1: eliminarAplicativo(id) on an existing relation whose aplicativo base is
\* referenced by exactly one row of aplicativos_rel (the one being deleted)
\* deletes that relation row and the aplicativos_base row, and answers with
\* aplicativo_eliminado = true.
C1_EliminaBaseDeUnaSolaReferencia ==
    [][\A id \in IdsAplicativoRel :
        (/\ DeleteAplicativo(id, SinFalla)
         /\ \E r \in Relaciones(id) : \E b \in aplicativos_base :
                b.id = r.aplicativo_base_id /\ Cardinality(ReferenciasAplicativo(b.id)) = 1)
        => /\ res'.status = 200
           /\ res'.eliminado = "true"
           /\ aplicativos_rel' = aplicativos_rel \ Relaciones(id)
           /\ aplicativos_base' = {b \in aplicativos_base : \A r \in Relaciones(id) : b.id # r.aplicativo_base_id}]_vars

\* C2: when the aplicativo base of relation id is referenced by two or more
\* rows of aplicativos_rel, eliminarAplicativo(id) deletes only the relation
\* row id: aplicativos_base and every other relation row are unchanged, and
\* the answer carries aplicativo_eliminado = false.
C2_SoloLaRelacion ==
    [][\A id \in IdsAplicativoRel :
        (/\ DeleteAplicativo(id, SinFalla)
         /\ \E r \in Relaciones(id) : Cardinality(ReferenciasAplicativo(r.aplicativo_base_id)) >= 2)
        => /\ res'.status = 200
           /\ res'.eliminado = "false"
           /\ aplicativos_rel' = aplicativos_rel \ Relaciones(id)
           /\ Cardinality(aplicativos_rel') = Cardinality(aplicativos_rel) - 1
           /\ aplicativos_base' = aplicativos_base
           /\ OtrasTablasIguales]_vars

\* A shared aplicativo was unlinked from one user and is still linked to another,
\* with the pool parsing COUNT to a number.
C2_Testigo ==
    /\ int8Parser = "number"
    /\ res.status = 200
    /\ res.mensaje = "Aplicativo eliminado correctamente"
    /\ res.eliminado = "false"
    /\ \E b \in aplicativos_base : b.nombre = res.nombre /\ ReferenciasAplicativo(b.id) # {}

----------------------------------------------------------------------------
(* Claims about notasController, checked under SpecNotas *)

RelacionesNota(id) == {r \in notas_despacho_rel : r.id = id}

ReferenciasPlantilla(plantilla_id) == {r \in notas_despacho_rel : r.plantilla_id = plantilla_id}

EnBlanco(s) == s \in {Null, "", " ", "  "}

NotaAvancesPura(b) == ~EnBlanco(b.nota_avances) /\ EnBlanco(b.nota_publica) /\ EnBlanco(b.nota_interna) /\ EnBlanco(b.plantilla)

\* What the claim says eliminarNota does with relation r
DebeBorrarPlantilla(r) ==
    \/ ReferenciasPlantilla(r.plantilla_id) \ {r} = {}
    \/ \E b \in plantillas_base : b.id = r.plantilla_id /\ NotaAvancesPura(b)

EfectoEliminarNota(r) ==
    /\ notas_despacho_rel' = notas_despacho_rel \ {r}
    /\ plantillas_base' = IF DebeBorrarPlantilla(r) THEN {b \in plantillas_base : b.id # r.plantilla_id} ELSE plantillas_base
    /\ (res'.eliminado = "true") <=> DebeBorrarPlantilla(r)

\* C3: eliminarNota(id) on an existing relation always deletes that
\* notas_despacho_rel row, and deletes the referenced plantillas_base row
\* exactly when the template is referenced by no other relation or is a pure
\* avances note; plantilla_eliminada is true exactly when the base row was
\* deleted.
C3_EliminarNota ==
    [][\A id \in IdsNotaRel : \A r \in RelacionesNota(id) :
        DeleteNota(id, SinFalla) => EfectoEliminarNota(r)]_vars

\* The same statement for the relations whose plantillas_base row exists
C3_EliminarNotaConPlantilla ==
    [][\A id \in IdsNotaRel : \A r \in RelacionesNota(id) :
        (DeleteNota(id, SinFalla) /\ \E b \in plantillas_base : b.id = r.plantilla_id) => EfectoEliminarNota(r)]_vars

----------------------------------------------------------------------------
(* Claims about creation and assignment, checked under SpecAgregar and SpecAsignar *)

ExisteUsuario(usuario_id) == \E u \in usuarios : u.id = usuario_id

TablasIguales ==
    /\ usuarios' = usuarios
    /\ aplicativos_base' = aplicativos_base /\ aplicativos_rel' = aplicativos_rel
    /\ plantillas_base' = plantillas_base /\ notas_despacho_rel' = notas_despacho_rel

\* C4: agregarAplicativo and agregarNota run the base insert and the relation
\* insert as two statements with no transaction: when the relation insert fails
\* after the base insert succeeded, the handler answers 500 and the base row
\* stays in the base table with no relation row for it.
C4_BaseSinRelacion ==
    [][/\ \A usuario_id \in IdsUsuario, a \in AplicativosNuevos :
            (/\ ExisteUsuario(usuario_id) /\ a.nombre # Null
             /\ PostAplicativo(usuario_id, a.nombre, a.url, a.categoria, FallaInsertRelacion))
            => /\ res'.status = 500
               /\ aplicativos_rel' = aplicativos_rel
               /\ \E b \in aplicativos_base' \ aplicativos_base :
                    /\ aplicativos_base' = aplicativos_base \cup {b}
                    /\ b.nombre = a.nombre
                    /\ \A r \in aplicativos_rel' : r.aplicativo_base_id # b.id
       /\ \A usuario_id \in IdsUsuario, novedad \in Novedades, c \in UnCuerpo :
            (/\ ExisteUsuario(usuario_id) /\ novedad # Null /\ novedad \notin nombresIncorrectos
             /\ PostNota(usuario_id, novedad, c, FallaInsertRelacion))
            => /\ res'.status = 500
               /\ notas_despacho_rel' = notas_despacho_rel
               /\ \E b \in plantillas_base' \ plantillas_base :
                    /\ plantillas_base' = plantillas_base \cup {b}
                    /\ b.novedad = novedad
                    /\ \A r \in notas_despacho_rel' : r.plantilla_id # b.id]_vars

\* agregarAplicativo answered 500 and the row it had just inserted in
\* aplicativos_base is there with no relation.
C4_Testigo ==
    /\ res.status = 500
    /\ res.mensaje = "Error al agregar aplicativo personalizado"
    /\ \E b \in aplicativos_base : b.id = uuid.ab /\ b.nombre = "Mi App" /\ ReferenciasAplicativo(b.id) = {}

\* C5: asignarAplicativo (and likewise asignarNota) answers 400 when an id is
\* missing, 404 when the user does not exist, 404 when the base row does not
\* exist, 409 when a relation for the same (usuario_id, base id) exists, and
\* then inserts nothing; otherwise it inserts exactly one relation row and
\* answers 201 with its id.
C5_Asignar ==
    [][/\ \A usuario_id \in IdsUsuario, base_id \in IdsAplicativoBase :
            PostAsignarAplicativo(usuario_id, base_id, SinFalla) =>
                IF usuario_id = NoId \/ base_id = NoId THEN res'.status = 400 /\ TablasIguales
                ELSE IF ~ExisteUsuario(usuario_id) THEN res'.status = 404 /\ TablasIguales
                ELSE IF ~ \E b \in aplicativos_base : b.id = base_id THEN res'.status = 404 /\ TablasIguales
                ELSE IF \E r \in aplicativos_rel : r.usuario_id = usuario_id /\ r.aplicativo_base_id = base_id
                     THEN res'.status = 409 /\ TablasIguales
                ELSE /\ res'.status = 201
                     /\ \E r \in aplicativos_rel' \ aplicativos_rel :
                            /\ aplicativos_rel' = aplicativos_rel \cup {r}
                            /\ r.id = res'.id /\ r.usuario_id = usuario_id /\ r.aplicativo_base_id = base_id
                            /\ \A q \in aplicativos_rel : q.id # r.id
                     /\ aplicativos_base' = aplicativos_base /\ OtrasTablasIguales
       /\ \A usuario_id \in IdsUsuario, plantilla_id \in IdsPlantilla :
            PostAsignarNota(usuario_id, plantilla_id, SinFalla) =>
                IF usuario_id = NoId \/ plantilla_id = NoId THEN res'.status = 400 /\ TablasIguales
                ELSE IF ~ExisteUsuario(usuario_id) THEN res'.status = 404 /\ TablasIguales
                ELSE IF ~ \E b \in plantillas_base : b.id = plantilla_id THEN res'.status = 404 /\ TablasIguales
                ELSE IF \E r \in notas_despacho_rel : r.usuario_id = usuario_id /\ r.plantilla_id = plantilla_id
                     THEN res'.status = 409 /\ TablasIguales
                ELSE /\ res'.status = 201
                     /\ \E r \in notas_despacho_rel' \ notas_despacho_rel :
                            /\ notas_despacho_rel' = notas_despacho_rel \cup {r}
                            /\ r.id = res'.id /\ r.usuario_id = usuario_id /\ r.plantilla_id = plantilla_id
                            /\ \A q \in notas_despacho_rel : q.id # r.id
                     /\ plantillas_base' = plantillas_base /\ usuarios' = usuarios
                     /\ aplicativos_base' = aplicativos_base /\ aplicativos_rel' = aplicativos_rel]_vars

\* asignarNota has linked a user to a template that had no relation, and
\* answered with the id of the new row.
C5_Testigo ==
    /\ res.status = 201
    /\ res.mensaje = "Nota asignada exitosamente"
    /\ \E r \in notas_despacho_rel : r.id = res.id /\ ReferenciasPlantilla(r.plantilla_id) = {r}

----------------------------------------------------------------------------
(* Claims about registration, checked under SpecAuth and SpecRegistro *)

ExisteEmail(email) == \E u \in usuarios : u.email = email

SinCorreosRepetidos == \A u, v \in usuarios : u.email = v.email => u = v

\* C6: registrarUsuario answers 400 and leaves usuarios and both relation
\* tables unchanged when a usuarios row with the same email exists (the SELECT
\* not throwing), and over any sequence of requests served one after another
\* no two usuarios rows share an email.
C6_CorreoUnico ==
    /\ []SinCorreosRepetidos
    /\ [][\A nombre \in Nombres, email \in Emails, contrasena \in Contrasenas, f \in FallasDe(2) :
            (ExisteEmail(email) /\ PostRegistro(nombre, email, contrasena, f))
            => /\ TablasIguales
               /\ f # 0 => res'.status = 400 /\ res'.mensaje = "El correo ya esta registrado"]_vars

\* A registration was refused for its email while both emails are registered.
C6_Testigo ==
    /\ res.status = 400
    /\ res.mensaje = "El correo ya esta registrado"
    /\ \A email \in Emails : ExisteEmail(email)

\* The tables after the INSERT INTO usuarios of a registration
ConUsuarioNuevo(nombre, email, contrasena) ==
    [Tablas EXCEPT !.usuarios = @ \cup {[id |-> uuid.u + 1, nombre |-> nombre, email |-> email, contrasena |-> contrasena]}, !.uuid.u = @ + 1]

\* The first default assignment of a registration that gets past its INSERT,
\* and the second one, which starts where the first left the tables
PlantillasDe(nombre, email, contrasena, f) == asignarPlantillasPorDefecto(ConUsuarioNuevo(nombre, email, contrasena), uuid.u + 1, f - 2)

AplicativosDe(nombre, email, contrasena, f) ==
    LET p == PlantillasDe(nombre, email, contrasena, f)
    IN  asignarAplicativosPorDefecto(p.d, uuid.u + 1, p.f)

AsignacionLanza(nombre, email, contrasena, f) ==
    PlantillasDe(nombre, email, contrasena, f).lanzo \/ AplicativosDe(nombre, email, contrasena, f).lanzo

RelacionesAplicativoDe(rel, usuario_id, base_id) == {r \in rel : r.usuario_id = usuario_id /\ r.aplicativo_base_id = base_id}

RelacionesNotaDe(rel, usuario_id, plantilla_id) == {r \in rel : r.usuario_id = usuario_id /\ r.plantilla_id = plantilla_id}

\* C7: when asignarPlantillasPorDefecto or asignarAplicativosPorDefecto throws
\* inside registrarUsuario, the request still answers 201 with a token, the
\* usuarios row is there, and the relation rows inserted before the failure
\* are there: the tables are the ones the failed assignment left.
C7_RegistroNoBloqueado ==
    [][\A nombre \in Nombres, email \in Emails, contrasena \in UnaContrasena, f \in Fallas :
        (/\ JWT_SECRET /\ ~ExisteEmail(email) /\ f >= 2
         /\ AsignacionLanza(nombre, email, contrasena, f)
         /\ PostRegistro(nombre, email, contrasena, f))
        => LET p == PlantillasDe(nombre, email, contrasena, f)
               a == AplicativosDe(nombre, email, contrasena, f)
           IN  /\ res'.status = 201
               /\ res'.token = [id |-> uuid.u + 1, email |-> email]
               /\ res'.token \in tokens'
               /\ usuarios' = usuarios \cup {[id |-> uuid.u + 1, nombre |-> nombre, email |-> email, contrasena |-> contrasena]}
               /\ notas_despacho_rel' = p.d.notas_despacho_rel
               /\ aplicativos_rel' = IF p.lanzo THEN aplicativos_rel ELSE a.d.aplicativos_rel
               /\ notas_despacho_rel \subseteq notas_despacho_rel'
               /\ aplicativos_rel \subseteq aplicativos_rel'
               /\ \A r \in (notas_despacho_rel' \ notas_despacho_rel) \cup (aplicativos_rel' \ aplicativos_rel) : r.usuario_id = uuid.u + 1]_vars

\* A registration answered 201 and its user holds a template relation and
\* lacks the relation to an aplicativo: the assignment failed half way.
C7_Testigo ==
    /\ res.status = 201
    /\ \E r \in notas_despacho_rel : r.usuario_id = res.usuario.id
    /\ \E b \in aplicativos_base : RelacionesAplicativoDe(aplicativos_rel, res.usuario.id, b.id) = {}

\* C8: after a registrarUsuario that answers 201 with no assignment error the
\* new user has exactly one notas_despacho_rel row for every plantillas_base
\* row and exactly one aplicativos_rel row for every aplicativos_base row in
\* the tables at that moment, whoever created those base rows.
C8_UnaRelacionPorBase ==
    [][\A nombre \in Nombres, email \in Emails, contrasena \in UnaContrasena, f \in Fallas :
        (/\ res'.status = 201
         /\ PostRegistro(nombre, email, contrasena, f)
         /\ ~AsignacionLanza(nombre, email, contrasena, f))
        => /\ \A b \in plantillas_base' : Cardinality(RelacionesNotaDe(notas_despacho_rel', res'.usuario.id, b.id)) = 1
           /\ \A b \in aplicativos_base' : Cardinality(RelacionesAplicativoDe(aplicativos_rel', res'.usuario.id, b.id)) = 1
           /\ \A b \in plantillas_base : \E c \in plantillas_base' : c = b
           /\ \A b \in aplicativos_base : \E c \in aplicativos_base' : c = b
           /\ \A r \in notas_despacho_rel' : r.usuario_id = res'.usuario.id => \E b \in plantillas_base' : b.id = r.plantilla_id
           /\ \A r \in aplicativos_rel' : r.usuario_id = res'.usuario.id => \E b \in aplicativos_base' : b.id = r.aplicativo_base_id]_vars

\* A registration answered 201 and its user is linked to every row of both
\* catalogues, one of them an aplicativo another user added.
C8_Testigo ==
    /\ res.status = 201
    /\ \A b \in aplicativos_base : Cardinality(RelacionesAplicativoDe(aplicativos_rel, res.usuario.id, b.id)) = 1
    /\ \A b \in plantillas_base : Cardinality(RelacionesNotaDe(notas_despacho_rel, res.usuario.id, b.id)) = 1
    /\ \E b \in aplicativos_base : b.categoria = "Personalizado"

----------------------------------------------------------------------------
(* Claims about passwords, checked under SpecAuth and SpecCambiar *)

Coincide(email, contrasena) == \E u \in usuarios : u.email = email /\ u.contrasena = contrasena

\* C9: loginUsuario answers 200 with a token and {id, nombre, email} if and
\* only if a usuarios row with the email exists and its stored password equals
\* the supplied one (the SELECT not throwing and the secret configured);
\* otherwise it answers 401 'Credenciales incorrectas', for an unknown email
\* and for a wrong password alike; login never changes a table.
C9_Login ==
    [][\A email \in Emails, contrasena \in Contrasenas, f \in FallasDe(1) :
        PostLogin(email, contrasena, f)
        => /\ TablasIguales
           /\ res'.status = 200 =>
                /\ Coincide(email, contrasena)
                /\ \E u \in usuarios :
                    /\ u.email = email
                    /\ res'.usuario = [id |-> u.id, nombre |-> u.nombre, email |-> u.email]
                    /\ res'.token = [id |-> u.id, email |-> u.email]
           /\ (f # 0 /\ JWT_SECRET /\ Coincide(email, contrasena)) => res'.status = 200
           /\ (f # 0 /\ ~Coincide(email, contrasena)) => res'.status = 401 /\ res'.mensaje = "Credenciales incorrectas"]_vars

\* A login succeeded for a user whose password is not the one of another user.
C9_Testigo ==
    /\ res.status = 200
    /\ res.mensaje = "Inicio de sesion exitoso"
    /\ \E u, v \in usuarios : u.id = res.usuario.id /\ v.contrasena # u.contrasena

TablasDespues == [usuarios |-> usuarios', aplicativos_base |-> aplicativos_base', aplicativos_rel |-> aplicativos_rel', plantillas_base |-> plantillas_base', notas_despacho_rel |-> notas_despacho_rel', uuid |-> uuid']

\* C10: cambiarContrasena sets the stored password of the token's email to
\* nueva only when actual equals the password stored for that email;
\* otherwise it answers 401 and the stored password is unchanged.  After a
\* success loginUsuario with nueva answers 200.
C10_CambiarContrasena ==
    [][\A h \in HeadersBearer, actual \in Contrasenas, nueva \in Contrasenas, f \in FallasDe(2) :
        PutCambiarContrasena(h, actual, nueva, f)
        => LET v == verificarToken(h)
           IN  /\ usuarios' # usuarios => v.next /\ Coincide(v.usuario.email, actual)
               /\ usuarios' \in {usuarios, { IF u.email = v.usuario.email THEN [u EXCEPT !.contrasena = nueva] ELSE u : u \in usuarios }}
               /\ (v.next /\ f # 0 /\ ~Coincide(v.usuario.email, actual)) =>
                    res'.status = 401 /\ res'.mensaje = "Contrasena actual incorrecta" /\ usuarios' = usuarios
               /\ res'.status = 200 =>
                    /\ Coincide(v.usuario.email, actual)
                    /\ \A u \in usuarios' : u.email = v.usuario.email => u.contrasena = nueva
                    /\ loginUsuario(TablasDespues, v.usuario.email, nueva, SinFalla).res.status = 200]_vars

\* The password of a user was changed to a different one.
C10_Testigo ==
    /\ res.status = 200
    /\ res.mensaje = "Contrasena actualizada correctamente"
    /\ \E u \in usuarios : u.contrasena = "p2"

\* C11: recuperarContrasena, a public route, sets the password of an existing
\* email to nueva on the basis of the email alone: no token has to exist and
\* the stored password is not consulted.  For an unknown email it answers 404
\* and changes nothing.  After a success loginUsuario(email, nueva) answers
\* 200 (the secret configured) and loginUsuario with the previous password
\* answers 401 when it differs from nueva.
C11_RecuperarContrasena ==
    [][\A email \in Emails, nueva \in Contrasenas, f \in FallasDe(2) :
        PutRecuperarContrasena(email, nueva, f)
        => /\ ~ExisteEmail(email) =>
                /\ TablasIguales
                /\ f # 0 => res'.status = 404 /\ res'.mensaje = "Usuario no encontrado"
           /\ (ExisteEmail(email) /\ f = SinFalla) =>
                /\ res'.status = 200
                /\ usuarios' = { IF u.email = email THEN [u EXCEPT !.contrasena = nueva] ELSE u : u \in usuarios }
                /\ aplicativos_base' = aplicativos_base /\ aplicativos_rel' = aplicativos_rel
                /\ plantillas_base' = plantillas_base /\ notas_despacho_rel' = notas_despacho_rel
           /\ res'.status = 200 =>
                /\ ExisteEmail(email)
                /\ JWT_SECRET => loginUsuario(TablasDespues, email, nueva, SinFalla).res.status = 200
                /\ \A u \in usuarios : (u.email = email /\ u.contrasena # nueva) =>
                        loginUsuario(TablasDespues, email, u.contrasena, SinFalla).res.status = 401]_vars

\* The password of a user who holds no token, none having been issued, was
\* replaced through the public route.
C11_Testigo ==
    /\ res.status = 200
    /\ res.mensaje = "Contrasena cambiada correctamente"
    /\ tokens = {}
    /\ \E u \in usuarios : u.contrasena = "p2"

----------------------------------------------------------------------------
(* Claims about authMiddleware, checked under SpecToken *)

EsBearer(esquema) == esquema \in {"Bearer", "bearer", "BEARER"}

\* What the claim asks of a request for next() to be called
TokenVerificado(h) == h.n = 2 /\ EsBearer(h.esquema) /\ JWT_SECRET /\ h.token.estado = "valido"

MensajesMiddleware == {
    "Token no proporcionado",
    "Formato de token invalido (Esperado: Bearer <token>)",
    "Error de configuracion del servidor",
    "Token expirado",
    "Token invalido (Firma o formato incorrecto)",
    "Token invalido" }

Rechazo == res'.status \in {401, 403, 500} /\ res'.mensaje \in MensajesMiddleware /\ TablasIguales /\ tokens' = tokens

\* next() exactly for the verified requests, with the payload in req.usuario
\* and no response; a response and no next() for the others
UnoDeLosDos ==
    \A h \in HeadersToken :
        LET v == verificarToken(h)
        IN  /\ v.next <=> TokenVerificado(h)
            /\ v.next => v.usuario = [id |-> h.token.id, email |-> h.token.email] /\ v.res.status = 0
            /\ ~v.next => v.res.status \in {401, 403, 500} /\ v.usuario = NoToken

\* C12: verificarToken calls next() only when the Authorization header is
\* present, splits into exactly two parts with the first equal to 'bearer'
\* ignoring case, the secret is configured and jwt.verify accepts the token;
\* req.usuario is then the decoded payload.  For every request exactly one of
\* next() or an error response happens, so cambiarContrasena and
\* asignarContenidoDefecto never run without a verified token.
C12_SoloConTokenVerificado ==
    /\ []UnoDeLosDos
    /\ [][/\ \A h \in HeadersToken, actual \in UnaContrasena :
                PutCambiarContrasena(h, actual, "p2", SinFalla) =>
                    IF TokenVerificado(h)
                    THEN /\ res'.mensaje \in {"Contrasena actualizada correctamente", "Contrasena actual incorrecta"}
                         /\ \A u \in usuarios : u.email # h.token.email => u \in usuarios'
                    ELSE Rechazo
          /\ \A h \in HeadersToken, u \in usuarios :
                PostAsignarContenidoDefecto(h, u.id, SinFalla) =>
                    IF TokenVerificado(h) THEN res'.mensaje \notin MensajesMiddleware ELSE Rechazo]_vars

\* asignarContenidoDefecto ran, behind the middleware, while a client holds
\* an issued token.
C12_Testigo ==
    /\ res.status = 200
    /\ res.mensaje = "Contenido por defecto asignado exitosamente al usuario"
    /\ tokens # {}

RespuestaEs(status, mensaje) == res'.status = status /\ res'.mensaje = mensaje

\* The rejections of the middleware in the order the claim gives them
OrdenDeRechazo(h) ==
    IF h.n = 0 THEN RespuestaEs(401, "Token no proporcionado")
    ELSE IF h.n # 2 \/ ~EsBearer(h.esquema) THEN RespuestaEs(401, "Formato de token invalido (Esperado: Bearer <token>)")
    ELSE IF ~JWT_SECRET THEN RespuestaEs(500, "Error de configuracion del servidor")
    ELSE IF h.token.estado = "expirado" THEN RespuestaEs(401, "Token expirado")
    ELSE IF h.token.estado # "valido" THEN res'.status = 403
    ELSE res'.mensaje \notin MensajesMiddleware

\* C13: verificarToken rejects in this order: 401 'Token no proporcionado'
\* for a missing header, then 401 for a malformed header, then 500 when the
\* secret is not configured, then 401 for an expired token and 403 for any
\* other verification failure; a missing or malformed header yields 401 also
\* when the secret is not configured.
C13_OrdenDeRechazo ==
    [][/\ \A h \in HeadersToken, actual \in UnaContrasena :
            PutCambiarContrasena(h, actual, "p2", SinFalla) => OrdenDeRechazo(h)
       /\ \A h \in HeadersToken, u \in usuarios :
            PostAsignarContenidoDefecto(h, u.id, SinFalla) => OrdenDeRechazo(h)]_vars

\* With the secret not configured and a user registered, a malformed header
\* was answered 401.
C13_Testigo ==
    /\ ~JWT_SECRET
    /\ usuarios # {}
    /\ res.status = 401
    /\ res.mensaje = "Formato de token invalido (Esperado: Bearer <token>)"

----------------------------------------------------------------------------
(* Claims about the aplicativos of each user, checked under SpecAplicativos *)

ListaDe(usuario_id) == obtenerAplicativos(Tablas, usuario_id, SinFalla).rows

ListaDespuesDe(usuario_id) == obtenerAplicativos(TablasDespues, usuario_id, SinFalla).rows

\* C14: each authenticated user has their own set of aplicativos: the list
\* obtenerAplicativos returns for user B is not changed by an
\* agregarAplicativo, asignarAplicativo or eliminarAplicativo request made by
\* a different user A.
C14_ListaAjenaIntacta ==
    [][\A quien \in usuarios, b \in usuarios :
        (quien.id # b.id /\ PeticionAplicativos(quien)) => ListaDespuesDe(b.id) = ListaDe(b.id)]_vars

\* The same statement for the requests of A that name A in the body and a
\* relation of A in the path, the ones the Aplicativos component sends
C14_ListaAjenaConIdsPropios ==
    [][\A quien \in usuarios, b \in usuarios :
        quien.id # b.id =>
            /\ \A a \in AplicativosNuevos, f \in FallasDe(3) :
                    PostAplicativo(quien.id, a.nombre, a.url, a.categoria, f) => ListaDespuesDe(b.id) = ListaDe(b.id)
            /\ \A aplicativo_base_id \in IdsAplicativoBase, f \in FallasDe(4) :
                    PostAsignarAplicativo(quien.id, aplicativo_base_id, f) => ListaDespuesDe(b.id) = ListaDe(b.id)
            /\ \A r \in aplicativos_rel, f \in FallasDe(3) :
                    (r.usuario_id = quien.id /\ DeleteAplicativo(r.id, f)) => ListaDespuesDe(b.id) = ListaDe(b.id)]_vars

----------------------------------------------------------------------------
(* Claims about the forced deletion of a template, checked under SpecPlantilla *)

\* C15: eliminarPlantillaAdicional(id) on an existing template deletes every
\* notas_despacho_rel row with plantilla_id = id and then the plantillas_base
\* row id, and reports relaciones_eliminadas equal to the number of relation
\* rows deleted; for an unknown id it answers 404 and changes nothing.
C15_EliminarPlantillaAdicional ==
    [][\A id \in IdsPlantilla :
        DeletePlantilla(id, SinFalla) =>
            IF \E b \in plantillas_base : b.id = id
            THEN /\ res'.status = 200
                 /\ notas_despacho_rel' = {r \in notas_despacho_rel : r.plantilla_id # id}
                 /\ plantillas_base' = {b \in plantillas_base : b.id # id}
                 /\ res'.relaciones = Cardinality(notas_despacho_rel) - Cardinality(notas_despacho_rel')
                 /\ res'.relaciones = Cardinality(ReferenciasPlantilla(id))
                 /\ usuarios' = usuarios /\ aplicativos_base' = aplicativos_base /\ aplicativos_rel' = aplicativos_rel
            ELSE /\ TablasIguales
                 /\ id # NoId => res'.status = 404 /\ res'.mensaje = "Plantilla no encontrada"]_vars

\* A template two users were linked to was deleted with both relations.
C15_Testigo ==
    /\ res.status = 200
    /\ res.mensaje = "Plantilla eliminada completamente"
    /\ res.relaciones = 2
    /\ \A r \in notas_despacho_rel : \E b \in plantillas_base : b.id = r.plantilla_id

----------------------------------------------------------------------------
(* Claim about the persistence effects of NotasRapidas and NovedadesAsesor,
   checked under SpecNavegador *)

\* Once the component has rendered and its effects have run, the load has
\* been committed and the storage holds the list of the state
GuardadoAlDia ==
    (montado # SinComponente /\ efectos = <<>> /\ actualizaciones = <<>>)
        => notasCargadas /\ localStorage[Clave(montado)] = JSONstringify(notas)

\* The storage changes only under the key of the mounted component and only
\* in a render that has seen the load committed
EscribeSoloTrasCargar ==
    \A k \in Claves :
        localStorage'[k] # localStorage[k] => montado # SinComponente /\ k = Clave(montado) /\ notasCargadas

\* The render that commits the load puts a stored list of notes in the
\* state, and the storage still holds it
CargaLoAlmacenado ==
    (montado # SinComponente /\ ~notasCargadas /\ notasCargadas')
        => LET guardadas == localStorage[Clave(montado)]
           IN  guardadas.json = "array"
                   => montado' = montado /\ notas' = Arreglo(guardadas.v) /\ localStorage' = localStorage

\* C16: in NotasRapidas and NovedadesAsesor the save effect never writes to
\* localStorage before the load effect has finished: the notes stored under
\* the component's key before it mounts are in the state after the mount and
\* are never overwritten by the initial empty list.
C16_GuardaSoloTrasCargar ==
    /\ []GuardadoAlDia
    /\ [][EscribeSoloTrasCargar /\ CargaLoAlmacenado]_vars

\* Both effects of the mount have run over stored notes: the load has queued
\* them for the state, the save has left the storage as it was
C16_Testigo ==
    /\ montado = "NotasRapidas" /\ ~notasCargadas /\ efectos = <<>>
    /\ Len(actualizaciones) = 2
    /\ actualizaciones[1].set = "notas" /\ actualizaciones[1].valor.v # <<>>
    /\ localStorage["notasRapidas"] = JsonArreglo(actualizaciones[1].valor.v)

====
